---------------------------- MODULE Spec2Model ----------------------------
(***************************************************************************)
(* ChatContainer (src/src/components/Chat/ChatContainer.js): the chat      *)
(* session initiation state machine.  One attempt is one call of           *)
(* submitChatInitiation; its two awaits (initiateChat, openChatSession)    *)
(* are the points where other handlers interleave.  this.setState is       *)
(* modelled as an immediate merge into this.state.                         *)
(***************************************************************************)
EXTENDS Integers, Sequences, FiniteSets, TLC

(***************************************************************************)
(* Bounds.                                                                 *)
(***************************************************************************)
\* Number of submitChatInitiation calls in one run.
MaxAttempts == 2

Attempts == 1 .. MaxAttempts

\* Length, in pieces, of the supportedMessagingContentTypes strings tried.
MaxPieces == 3

\* this.state.chatSession: null (constructor, resetState).  The session an
\* attempt constructs is named by the attempt's number.
NoSession == 0

(***************************************************************************)
(* JavaScript values, as far as lines 103-110 read them.                   *)
(***************************************************************************)
Undefined == [t |-> "undefined"]

JSBool(b) == [t |-> "boolean", v |-> b]

\* A string is the sequence of its pieces; "," is a piece of its own.
JSString(s) == [t |-> "string", v |-> s]

JSNumber(n) == [t |-> "number", v |-> n]

\* A featurePermissions mapping; attachments is its entry under
\* CHAT_FEATURE_TYPES.ATTACHMENTS (Undefined when the key is absent).
FeaturePermissions(entry) == [t |-> "object", attachments |-> entry]

\* A callback: what calling it does ("returns" or "throws").
JSFunction(does) == [t |-> "function", does |-> does]

\* A startChatResult / chatSessionParameters object.
StartChatResult(contactId) == [t |-> "object", ContactId |-> contactId]

\* What reading a property of undefined raises.
TypeError == [t |-> "TypeError"]

\* ToBoolean.
Truthy(x) ==
    CASE x.t = "undefined" -> FALSE
      [] x.t = "TypeError" -> FALSE
      [] x.t = "boolean"   -> x.v
      [] x.t = "string"    -> x.v # << >>
      [] x.t = "number"    -> x.v # 0
      [] OTHER             -> TRUE

\* a && b: b is evaluated only when a is truthy.
JSAnd(a, b) == IF Truthy(a) THEN b ELSE a

\* a || b: b is evaluated only when a is falsy; a throw in a propagates.
JSOr(a, b) == IF Truthy(a) \/ a = TypeError THEN a ELSE b

\* obj.name: undefined when the object has no such property; reading a
\* property of undefined throws.
Prop(obj, name) ==
    IF obj.t \in {"undefined", "TypeError"} THEN TypeError
    ELSE IF name \in DOMAIN obj THEN obj[name] ELSE Undefined

\* ContentType.MESSAGE_CONTENT_TYPE.TEXT_MARKDOWN, one piece of a string.
TEXT_MARKDOWN == "text/markdown"

\* String.prototype.split(","): the entries between the commas.
RECURSIVE Split(_)
Split(s) ==
    IF \A i \in 1 .. Len(s) : s[i] # ","
    THEN << s >>
    ELSE LET i == CHOOSE k \in 1 .. Len(s) :
                    s[k] = "," /\ \A j \in 1 .. k - 1 : s[j] # ","
         IN  << SubSeq(s, 1, i - 1) >> \o Split(SubSeq(s, i + 1, Len(s)))

\* Array.prototype.includes
Includes(arr, x) == \E i \in 1 .. Len(arr) : arr[i] = x

\* Lines 106-108.
AttachmentsEnabled(input, details) ==
    JSOr(
        JSAnd(Prop(input, "featurePermissions"),
              Prop(Prop(input, "featurePermissions"), "attachments")),
        JSAnd(Prop(details, "featurePermissions"),
              Prop(Prop(details, "featurePermissions"), "attachments")))

\* Line 109 looking for the literal anywhere in the string instead of among
\* its comma-separated entries.
RichMessagingEnabledAnywhere(input) ==
    IF Prop(input, "supportedMessagingContentTypes").t = "string"
    THEN JSBool(Includes(input.supportedMessagingContentTypes.v,
                         TEXT_MARKDOWN))
    ELSE JSBool(FALSE)

\* Line 109.
RichMessagingEnabled(input) ==
    IF Prop(input, "supportedMessagingContentTypes").t = "string"
    THEN JSBool(Includes(Split(input.supportedMessagingContentTypes.v),
                         << TEXT_MARKDOWN >>))
    ELSE JSBool(FALSE)

\* Line 110.
Language(input) == JSOr(Prop(input, "language"), JSString(<< "en_US" >>))


(***************************************************************************)
(* The values the callers and the collaborators hand in.                   *)
(***************************************************************************)
\* chatDetails of initiateChatSession: the fields lines 103-110 read.
ChatDetails(params, permissions, contentTypes, lang) ==
    [t |-> "object",
     chatSessionParameters |-> params,
     featurePermissions |-> permissions,
     supportedMessagingContentTypes |-> contentTypes,
     language |-> lang]

\* input.featurePermissions and chatDetails.featurePermissions: absent, or a
\* mapping whose attachments entry is absent, false or true.
PermissionValues ==
    {Undefined} \cup
    {FeaturePermissions(e) : e \in {Undefined, JSBool(FALSE), JSBool(TRUE)}}

\* The pieces a supportedMessagingContentTypes string is made of: the
\* markdown literal, other text, and the comma.
Pieces == {TEXT_MARKDOWN, "text/plain", ","}

\* input.supportedMessagingContentTypes: absent, not a string, or a string
\* of up to MaxPieces pieces: empty, the literal alone, the literal as an
\* entry of a list, the literal inside a longer entry.
ContentTypeValues ==
    {Undefined, JSNumber(1)} \cup
    {JSString(s) : s \in UNION {[1 .. k -> Pieces] : k \in 0 .. MaxPieces}}

LanguageValues == {Undefined, JSString(<< >>), JSString(<< "de_DE" >>)}

ParameterValues == {Undefined, StartChatResult("c0")}

\* Every input of the derivation of lines 103-110.
AllChatDetails ==
    {ChatDetails(p, fp, ct, l) :
        p \in ParameterValues, fp \in PermissionValues,
        ct \in ContentTypeValues, l \in LanguageValues}

\* What initiateChat resolves with: startChatResult and, optionally,
\* featurePermissions.
CreatedChatDetails(permissions) ==
    [t |-> "object",
     startChatResult |-> StartChatResult("c1"),
     featurePermissions |-> permissions]

AllCreatedChatDetails == {CreatedChatDetails(fp) : fp \in PermissionValues}

SomeCreatedChatDetails == {CreatedChatDetails(Undefined)}

\* A callback, success or failure, is absent, or a function that returns or
\* throws.
\* The calls of the lifecycle runs: an input with its two callbacks.
SomeCalls ==
    {<< ChatDetails(Undefined, Undefined, Undefined, Undefined),
        Undefined, Undefined >>,
     << ChatDetails(Undefined, Undefined, Undefined, Undefined),
        JSFunction("throws"), JSFunction("returns") >>,
     << ChatDetails(StartChatResult("c0"), Undefined, Undefined, Undefined),
        JSFunction("returns"), JSFunction("returns") >>,
     << ChatDetails(Undefined, FeaturePermissions(JSBool(TRUE)),
                    JSString(<< "text/plain", ",", TEXT_MARKDOWN >>),
                    JSString(<< "de_DE" >>)),
        JSFunction("returns"), JSFunction("returns") >>}

\* The errors: what initiateChat rejects with, what openChatSession rejects
\* with, what a throwing callback throws.
CreateErrors == {"DescriptorCreationError"}

OpenErrors == {"SessionOpenError"}

CallbackError == "CallbackError"

NoError == "none"

(***************************************************************************)
(* State.                                                                  *)
(***************************************************************************)
VARIABLES
    status,             \* this.state.status
    chatSession,        \* this.state.chatSession
    composerConfig,     \* this.state.composerConfig
    language,           \* this.state.language
    currentChatSession, \* what setCurrentChatSessionInstance last stored
    setCurrentCalls,    \* number of setCurrentChatSessionInstance calls
    subscribers,        \* EventBus: topic -> the handlers subscribed, in order
    mounted,            \* FALSE once componentWillUnmount has run
    pc,                 \* attempt -> where its submitChatInitiation stands
    args,               \* attempt -> (input, success, failure)
    atCall,             \* attempt -> this.state and the registry at its call
    chatDetails,        \* attempt -> chatDetails of line 103
    rejected,           \* attempt -> which await rejected, and the error
    caught,             \* attempt -> the error the catch of line 122 caught
    factoryCalls,       \* attempt -> number of initiateChat calls
    openCalls,          \* attempt -> number of chatSession.openChatSession calls
    successCalls,       \* attempt -> the arguments success was called with
    failureCalls,       \* attempt -> the arguments failure was called with
    sessionDetails,     \* session -> chatDetails handed to new ChatSession
    connection,         \* session -> none, opening, open, failed, closed
    endChatEvents       \* number of EventBus.trigger("endChat", {})

orchestrator == << status, chatSession, composerConfig, language >>

registry == << currentChatSession, setCurrentCalls >>

attempts == << pc, args, atCall, chatDetails, rejected, caught, factoryCalls,
               openCalls, successCalls, failureCalls >>

sessions == << sessionDetails, connection, endChatEvents >>

vars == << orchestrator, registry, subscribers, mounted, attempts, sessions >>

\* composerConfig: {} of line 48.
EmptyObject == [t |-> "object"]

NoCall == [input |-> Undefined, success |-> Undefined, failure |-> Undefined]

NoSnapshot == [status |-> "none", chatSession |-> NoSession,
               currentChatSession |-> NoSession, setCurrentCalls |-> 0,
               inFlight |-> {}]

NoRejection == [by |-> "none", error |-> NoError]

\* The two functions the constructor makes: line 53 keeps the first in
\* this.submitChatInitiationHandler, line 54 subscribes the second.
HandlerOfLine53 == "initiateChatSession.bind@53"

HandlerOfLine54 == "initiateChatSession.bind@54"

Topics == {"initChat", "endChat"}

(***************************************************************************)
(* EventBus.                                                               *)
(***************************************************************************)
\* on(topic, handler): the handler is appended to the topic's subscribers.
EventBusOn(subs, topic, handler) ==
    [subs EXCEPT ![topic] = Append(@, handler)]

\* off(handler): that handler reference is removed; one that is not
\* subscribed leaves the subscribers as they are.
EventBusOff(subs, handler) ==
    [tp \in Topics |-> SelectSeq(subs[tp], LAMBDA h : h # handler)]

(***************************************************************************)
(* Constructor, lines 44-60.                                               *)
(***************************************************************************)
Init ==
    /\ status = "NotInitiated"
    /\ chatSession = NoSession
    /\ composerConfig = EmptyObject
    /\ language = JSString(<< "en_US" >>)
    /\ currentChatSession = NoSession
    /\ setCurrentCalls = 0
    /\ subscribers = EventBusOn([tp \in Topics |-> << >>], "initChat",
                                HandlerOfLine54)
    /\ mounted = TRUE
    /\ pc = [a \in Attempts |-> "idle"]
    /\ args = [a \in Attempts |-> NoCall]
    /\ atCall = [a \in Attempts |-> NoSnapshot]
    /\ chatDetails = [a \in Attempts |-> Undefined]
    /\ rejected = [a \in Attempts |-> NoRejection]
    /\ caught = [a \in Attempts |-> NoError]
    /\ factoryCalls = [a \in Attempts |-> 0]
    /\ openCalls = [a \in Attempts |-> 0]
    /\ successCalls = [a \in Attempts |-> << >>]
    /\ failureCalls = [a \in Attempts |-> << >>]
    /\ sessionDetails = [a \in Attempts |-> Undefined]
    /\ connection = [a \in Attempts |-> "none"]
    /\ endChatEvents = 0


(***************************************************************************)
(* submitChatInitiation, lines 96-126, cut at its awaits.                  *)
(***************************************************************************)
\* The attempt a call of submitChatInitiation becomes: the first unused one.
NextAttempt == CHOOSE a \in Attempts :
                   pc[a] = "idle" /\ \A b \in 1 .. a - 1 : pc[b] # "idle"

\* Line 97 left out: the status is first written after an await.
SetStateInitiatingSkipped ==
    UNCHANGED << status, chatSession, composerConfig, language >>

\* Line 97.
SetStateInitiating ==
    /\ status' = "Initiating"
    /\ UNCHANGED << chatSession, composerConfig, language >>

\* Line 103 handing chatSessionParameters on without wrapping it.
PassParameters(input) == input.chatSessionParameters

\* Line 103, the branch taken when input.chatSessionParameters is truthy.
WrapParameters(input) ==
    [t |-> "object", startChatResult |-> input.chatSessionParameters]

\* Line 105 keeping the session the registry already holds.
SetCurrentChatSessionInstanceIfNone(session) ==
    /\ currentChatSession' = IF currentChatSession = NoSession THEN session
                             ELSE currentChatSession
    /\ setCurrentCalls' = setCurrentCalls + 1

\* Line 105.
SetCurrentChatSessionInstance(session) ==
    /\ currentChatSession' = session
    /\ setCurrentCalls' = setCurrentCalls + 1

\* openChatSession registering the session it constructs, before its open
\* has resolved.
OpenChatSessionRegistering(a, details) ==
    /\ sessionDetails' = [sessionDetails EXCEPT ![a] = details]
    /\ connection' = [connection EXCEPT ![a] = "opening"]
    /\ openCalls' = [openCalls EXCEPT ![a] = @ + 1]
    /\ SetCurrentChatSessionInstance(a)

\* openChatSession, lines 128-136, up to the promise it returns: the session
\* is constructed from chatDetails, its close handler registered, and its
\* openChatSession called.  The registry is not written.
OpenChatSession(a, details) ==
    /\ sessionDetails' = [sessionDetails EXCEPT ![a] = details]
    /\ connection' = [connection EXCEPT ![a] = "opening"]
    /\ openCalls' = [openCalls EXCEPT ![a] = @ + 1]
    /\ UNCHANGED registry

\* Lines 96-104 constructing and opening a session at the call, beside the
\* initiateChat it awaits.
submitChatInitiationInParallel(a, input, success, failure) ==
    /\ pc[a] = "idle"
    /\ SetStateInitiating
    /\ args' = [args EXCEPT ![a] =
                   [input |-> input, success |-> success, failure |-> failure]]
    /\ atCall' = [atCall EXCEPT ![a] =
                   [status |-> status, chatSession |-> chatSession,
                    currentChatSession |-> currentChatSession,
                    setCurrentCalls |-> setCurrentCalls,
                    inFlight |-> {b \in Attempts :
                                    pc[b] \in {"initiateChat",
                                               "openChatSession"}}]]
    /\ OpenChatSession(a, WrapParameters(input))
    /\ IF Truthy(input.chatSessionParameters)
       THEN /\ chatDetails' = [chatDetails EXCEPT ![a] = WrapParameters(input)]
            /\ pc' = [pc EXCEPT ![a] = "openChatSession"]
            /\ UNCHANGED factoryCalls
       ELSE /\ factoryCalls' = [factoryCalls EXCEPT ![a] = @ + 1]
            /\ pc' = [pc EXCEPT ![a] = "initiateChat"]
            /\ UNCHANGED chatDetails
    /\ UNCHANGED << subscribers, mounted, rejected, caught, successCalls,
                    failureCalls, endChatEvents >>

\* Lines 96-104, to the first await: line 103's when initiateChat is called,
\* line 104's when chatSessionParameters is given.
submitChatInitiation(a, input, success, failure) ==
    /\ pc[a] = "idle"
    /\ SetStateInitiating
    /\ args' = [args EXCEPT ![a] =
                   [input |-> input, success |-> success, failure |-> failure]]
    /\ atCall' = [atCall EXCEPT ![a] =
                   [status |-> status, chatSession |-> chatSession,
                    currentChatSession |-> currentChatSession,
                    setCurrentCalls |-> setCurrentCalls,
                    inFlight |-> {b \in Attempts :
                                    pc[b] \in {"initiateChat",
                                               "openChatSession"}}]]
    /\ IF Truthy(input.chatSessionParameters)
       THEN /\ chatDetails' = [chatDetails EXCEPT ![a] = WrapParameters(input)]
            /\ OpenChatSession(a, WrapParameters(input))
            /\ pc' = [pc EXCEPT ![a] = "openChatSession"]
            /\ UNCHANGED factoryCalls
       ELSE /\ factoryCalls' = [factoryCalls EXCEPT ![a] = @ + 1]
            /\ pc' = [pc EXCEPT ![a] = "initiateChat"]
            /\ UNCHANGED << chatDetails, sessionDetails, connection, openCalls,
                            registry >>
    /\ UNCHANGED << subscribers, mounted, rejected, caught, successCalls,
                    failureCalls, endChatEvents >>

\* Lines 66-77: logging, then submitChatInitiation.
initiateChatSession(a, input, success, failure) ==
    submitChatInitiation(a, input, success, failure)

\* Lines 122-125 without the setState of line 123.
CatchWithoutSetState(a, error) ==
    /\ status' = status
    /\ caught' = [caught EXCEPT ![a] = error]
    /\ failureCalls' = [failureCalls EXCEPT ![a] =
                           IF Truthy(args[a].failure) THEN Append(@, error)
                           ELSE @]
    /\ pc' = [pc EXCEPT ![a] = "done"]

\* Lines 122-125 calling failure with an error of their own.
CatchWrappingError(a, error) ==
    /\ status' = "InitiateFailed"
    /\ caught' = [caught EXCEPT ![a] = error]
    /\ failureCalls' = [failureCalls EXCEPT ![a] =
                           IF Truthy(args[a].failure)
                           THEN Append(@, "InitiationError")
                           ELSE @]
    /\ pc' = [pc EXCEPT ![a] = "done"]

\* Lines 122-125: the catch block.  this.state is otherwise as the try block
\* left it.
Catch(a, error) ==
    /\ status' = "InitiateFailed"
    /\ caught' = [caught EXCEPT ![a] = error]
    /\ failureCalls' = [failureCalls EXCEPT ![a] =
                           IF Truthy(args[a].failure) THEN Append(@, error)
                           ELSE @]
    /\ pc' = [pc EXCEPT ![a] = "done"]

\* initiateChat(input) resolves with details: line 103 ends, line 104 runs
\* to its await.
initiateChatResolves(a, details) ==
    /\ pc[a] = "initiateChat"
    /\ chatDetails' = [chatDetails EXCEPT ![a] = details]
    /\ OpenChatSession(a, details)
    /\ pc' = [pc EXCEPT ![a] = "openChatSession"]
    /\ UNCHANGED << orchestrator, subscribers, mounted, args, atCall, rejected,
                    caught, factoryCalls, successCalls, failureCalls,
                    endChatEvents >>

\* initiateChat(input) rejects with error, and line 103 calls it again.
initiateChatRejectsAndRetries(a, error) ==
    /\ pc[a] = "initiateChat"
    /\ factoryCalls[a] < 2
    /\ factoryCalls' = [factoryCalls EXCEPT ![a] = @ + 1]
    /\ UNCHANGED << orchestrator, registry, subscribers, mounted, pc, args,
                    atCall, chatDetails, rejected, caught, openCalls,
                    successCalls, failureCalls, sessions >>

\* initiateChat(input) rejects with error: line 103 throws.
initiateChatRejects(a, error) ==
    /\ pc[a] = "initiateChat"
    /\ rejected' = [rejected EXCEPT ![a] =
                       [by |-> "initiateChat", error |-> error]]
    /\ Catch(a, error)
    /\ UNCHANGED << chatSession, composerConfig, language, registry,
                    subscribers, mounted, args, atCall, chatDetails,
                    factoryCalls, openCalls, successCalls, sessions >>

\* chatSession.openChatSession() rejects with error: line 104 throws.
openChatSessionRejects(a, error) ==
    /\ pc[a] = "openChatSession"
    /\ connection' = [connection EXCEPT ![a] = "failed"]
    /\ rejected' = [rejected EXCEPT ![a] =
                       [by |-> "openChatSession", error |-> error]]
    /\ Catch(a, error)
    /\ UNCHANGED << chatSession, composerConfig, language, registry,
                    subscribers, mounted, args, atCall, chatDetails,
                    factoryCalls, openCalls, successCalls, sessionDetails,
                    endChatEvents >>

\* chatSession.openChatSession() resolves: lines 105-121, and lines 122-125
\* when one of them throws.
openChatSessionResolves(a) ==
    /\ pc[a] = "openChatSession"
    /\ connection' = [connection EXCEPT ![a] = "open"]
    /\ SetCurrentChatSessionInstance(a)
    /\ LET input == args[a].input
           attachmentsEnabled == AttachmentsEnabled(input, chatDetails[a])
           derivationThrows == attachmentsEnabled = TypeError
           successCalled == ~derivationThrows /\ Truthy(args[a].success)
           successThrows == successCalled /\ args[a].success.does = "throws"
       IN  /\ IF derivationThrows
              THEN UNCHANGED << chatSession, composerConfig, language >>
              ELSE /\ chatSession' = a
                   /\ composerConfig' =
                        [t |-> "object",
                         attachmentsEnabled |-> attachmentsEnabled,
                         richMessagingEnabled |-> RichMessagingEnabled(input)]
                   /\ language' = Language(input)
           /\ successCalls' = [successCalls EXCEPT ![a] =
                                  IF successCalled THEN Append(@, a) ELSE @]
           /\ IF derivationThrows \/ successThrows
              THEN Catch(a, IF derivationThrows THEN "TypeError"
                            ELSE CallbackError)
              ELSE /\ status' = "Initiated"
                   /\ pc' = [pc EXCEPT ![a] = "done"]
                   /\ UNCHANGED << caught, failureCalls >>
    /\ UNCHANGED << subscribers, mounted, args, atCall, chatDetails, rejected,
                    factoryCalls, openCalls, sessionDetails, endChatEvents >>

(***************************************************************************)
(* resetState, componentWillUnmount, and the events.                       *)
(***************************************************************************)
\* Line 139 putting the whole of this.state back to what the constructor set.
SetStateAsConstructed ==
    /\ status' = "NotInitiated"
    /\ chatSession' = NoSession
    /\ composerConfig' = EmptyObject
    /\ language' = JSString(<< "en_US" >>)

\* Line 139 without its chatSession: null.
SetStatusNotInitiated ==
    /\ status' = "NotInitiated"
    /\ UNCHANGED << chatSession, composerConfig, language >>

\* Line 139.
SetStateNotInitiated ==
    /\ status' = "NotInitiated"
    /\ chatSession' = NoSession
    /\ UNCHANGED << composerConfig, language >>

\* Lines 138-141; reached from the Go Back button (line 157) and from
\* Chat's onEnded (line 171).
resetState ==
    /\ mounted
    /\ SetStateNotInitiated
    /\ UNCHANGED << registry, subscribers, mounted, attempts, sessions >>

\* Lines 62-64.
componentWillUnmount ==
    /\ mounted
    /\ mounted' = FALSE
    /\ subscribers' = EventBusOff(subscribers, HandlerOfLine53)
    /\ UNCHANGED << orchestrator, registry, attempts, sessions >>

\* EventBus.trigger("initChat", ...): the subscribed handler is called with
\* the initiation input and the two callbacks.
TriggerInitChat(input, success, failure) ==
    /\ \E a \in Attempts : pc[a] = "idle"
    /\ subscribers["initChat"] # << >>
    /\ Head(subscribers["initChat"]) \in {HandlerOfLine53, HandlerOfLine54}
    /\ initiateChatSession(NextAttempt, input, success, failure)

\* The session's connection terminates: the handler of lines 130-132 runs
\* once and triggers endChat, which goes to the subscribers of endChat.
\* The constructor subscribes to initChat alone, so no handler of this
\* component is among them.
chatClose(session) ==
    /\ connection[session] = "open"
    /\ connection' = [connection EXCEPT ![session] = "closed"]
    /\ endChatEvents' = endChatEvents + 1
    /\ IF \E i \in DOMAIN subscribers["endChat"] :
              subscribers["endChat"][i] = "resetState"
       THEN SetStateNotInitiated
       ELSE UNCHANGED orchestrator
    /\ UNCHANGED << registry, subscribers, mounted, attempts, sessionDetails >>

(***************************************************************************)
(* The lifecycle: any interleaving of calls, settlements and events.       *)
(***************************************************************************)
Settle ==
    \/ \E a \in Attempts, d \in SomeCreatedChatDetails :
            initiateChatResolves(a, d)
    \/ \E a \in Attempts, e \in CreateErrors : initiateChatRejects(a, e)
    \/ \E a \in Attempts : openChatSessionResolves(a)
    \/ \E a \in Attempts, e \in OpenErrors : openChatSessionRejects(a, e)

Next ==
    \/ \E call \in SomeCalls : TriggerInitChat(call[1], call[2], call[3])
    \/ Settle
    \/ \E s \in Attempts : chatClose(s)
    \/ resetState
    \/ componentWillUnmount

Spec == Init /\ [][Next]_vars

\* The promises of the attempts in flight settle: the continuation of an
\* await runs once its promise has settled.
FairSpec == Spec /\ WF_vars(Settle)

(***************************************************************************)
(* The derivation of lines 103-110 on every input: one call, taken to      *)
(* line 121.                                                               *)
(***************************************************************************)
DerivationNext ==
    \/ \E input \in AllChatDetails :
            /\ pc[1] = "idle"
            /\ TriggerInitChat(input, JSFunction("returns"),
                               JSFunction("returns"))
    \/ \E d \in AllCreatedChatDetails : initiateChatResolves(1, d)
    \/ openChatSessionResolves(1)

DerivationSpec == Init /\ [][DerivationNext]_vars

(***************************************************************************)
(* One call and what follows it when the component is left to itself: the  *)
(* call settles either way, the session may close, and nothing calls       *)
(* resetState or componentWillUnmount from outside.                        *)
(***************************************************************************)
OneCallSettle ==
    \/ \E d \in AllCreatedChatDetails : initiateChatResolves(1, d)
    \/ \E e \in CreateErrors : initiateChatRejects(1, e)
    \/ openChatSessionResolves(1)
    \/ \E e \in OpenErrors : openChatSessionRejects(1, e)

OneCallNext ==
    \/ \E input \in AllChatDetails :
            /\ pc[1] = "idle"
            /\ TriggerInitChat(input, JSFunction("returns"),
                               JSFunction("returns"))
    \/ OneCallSettle
    \/ chatClose(1)

OneCallSpec == Init /\ [][OneCallNext]_vars /\ WF_vars(OneCallSettle)

(***************************************************************************)
(* Properties.                                                             *)
(***************************************************************************)
InFlight(a) == pc[a] \in {"initiateChat", "openChatSession"}

\* The step in which attempt a is called.
Called(a) == pc[a] = "idle" /\ pc'[a] # "idle"

\* The step in which an await of attempt a rejects.
Rejects(a) == rejected[a].by = "none" /\ rejected'[a].by # "none"

\* The step in which the session open of attempt a resolves.
OpenResolves(a) ==
    pc[a] = "openChatSession" /\ pc'[a] = "done" /\ rejected'[a].by = "none"

\* C1: the step that calls submitChatInitiation leaves the status Initiating
\* with the attempt's first await still pending, whatever the status was,
\* and the status goes from Initiating to Initiated or InitiateFailed only
\* in a step in which an attempt settles.
C1_InitiatingBeforeAnythingSettles ==
    [][ /\ \A a \in Attempts :
              Called(a) => status' = "Initiating" /\ InFlight(a)'
        /\ (status = "Initiating" /\ status' \in {"Initiated", "InitiateFailed"})
              => \E a \in Attempts : InFlight(a) /\ pc'[a] = "done" ]_vars

\* An attempt called while Initiated with a session held awaits initiateChat,
\* and the status is Initiating.
C1_Witness ==
    \E a \in Attempts :
        /\ atCall[a].status = "Initiated"
        /\ atCall[a].chatSession # NoSession
        /\ pc[a] = "initiateChat"
        /\ status = "Initiating"

\* C2: when the session open of an attempt resolves while no other attempt
\* is in flight, the status is Initiated, the registry and
\* this.state.chatSession hold the attempt's session, and success, if given,
\* has been called once with that session and failure not at all.
C2_SuccessEndsInitiated ==
    [][ \A a \in Attempts :
            (OpenResolves(a) /\ \A b \in Attempts \ {a} : ~InFlight(b))
            => /\ status' = "Initiated"
               /\ currentChatSession' = a
               /\ chatSession' = a
               /\ successCalls'[a] =
                    IF Truthy(args[a].success) THEN << a >> ELSE << >>
               /\ failureCalls'[a] = << >> ]_vars

\* C3 as claimed: the step in which an await of an attempt rejects leaves
\* the status InitiateFailed and this.state.chatSession empty.
C3_FailureLeavesNoSession ==
    [][ \A a \in Attempts :
            Rejects(a) => status' = "InitiateFailed" /\ chatSession' = NoSession
      ]_vars

\* C3 amended: the step in which an await of an attempt rejects leaves the
\* status InitiateFailed and this.state.chatSession as it was; it never
\* becomes the session of the failed attempt.
C3_FailureKeepsSessionReference ==
    [][ \A a \in Attempts :
            Rejects(a) => /\ status' = "InitiateFailed"
                          /\ chatSession' = chatSession
                          /\ chatSession' # a ]_vars

\* An attempt called while Initiated has failed, and the session of the
\* earlier attempt is still held.
C3_Witness ==
    \E a \in Attempts :
        /\ atCall[a].status = "Initiated"
        /\ rejected[a].by # "none"
        /\ status = "InitiateFailed"
        /\ chatSession # NoSession

\* C4: no step of an attempt other than the resolution of its session open
\* calls setCurrentChatSessionInstance, and when an await of the attempt
\* rejects with no call of setCurrentChatSessionInstance since the attempt
\* was called, the registry holds what it held at the call.
C4_FailedAttemptLeavesRegistry ==
    [][ \A a \in Attempts :
          /\ (pc'[a] # pc[a] /\ ~OpenResolves(a))
                => UNCHANGED << currentChatSession, setCurrentCalls >>
          /\ (Rejects(a) /\ setCurrentCalls = atCall[a].setCurrentCalls)
                => currentChatSession' = atCall[a].currentChatSession ]_vars

\* An attempt called with a session registered has failed at the session
\* open, and the registry still holds that session.
C4_Witness ==
    \E a \in Attempts :
        /\ rejected[a].by = "openChatSession"
        /\ atCall[a].currentChatSession # NoSession
        /\ currentChatSession = atCall[a].currentChatSession

\* C5: an attempt one of whose awaits rejected with an error has called
\* failure, if given, exactly once, with that error, and has not called
\* success.
C5_FailureGetsTheRejection ==
    \A a \in Attempts :
        rejected[a].by # "none"
        => /\ failureCalls[a] =
                IF Truthy(args[a].failure) THEN << rejected[a].error >>
                ELSE << >>
           /\ successCalls[a] = << >>
           /\ caught[a] = rejected[a].error

\* One attempt has failed at initiateChat and one at the session open, each
\* with a failure callback.
C5_Witness ==
    \E a, b \in Attempts :
        /\ rejected[a].by = "initiateChat"
        /\ rejected[b].by = "openChatSession"
        /\ Len(failureCalls[a]) = 1
        /\ Len(failureCalls[b]) = 1

\* C6: once the session held in status Initiated has closed, the status
\* eventually is NotInitiated and this.state.chatSession empty.
C6_CloseResets ==
    \A s \in Attempts :
        (status = "Initiated" /\ chatSession = s /\ connection[s] = "closed")
        ~> (status = "NotInitiated" /\ chatSession = NoSession)

\* C7: after componentWillUnmount no step starts an attempt: a trigger of
\* initChat reaches no handler of the component, so no attempt is called,
\* the status does not become Initiating, and neither initiateChat nor a
\* session open is called for a new attempt.
C7_NoInitiationAfterUnmount ==
    [][ ~mounted => \A a \in Attempts : ~Called(a) ]_vars

\* C8: at most one session is open (opened and not closed) at any time.
C8_AtMostOneOpenSession ==
    Cardinality({s \in Attempts : connection[s] = "open"}) <= 1

\* C9 as claimed: for an input with chatSessionParameters, initiateChat is
\* never called and the ChatSession is constructed from the
\* chatSessionParameters object itself.
C9_ParametersAreTheDescriptor ==
    \A a \in Attempts :
        (pc[a] # "idle" /\ Truthy(args[a].input.chatSessionParameters))
        => /\ factoryCalls[a] = 0
           /\ sessionDetails[a] = args[a].input.chatSessionParameters

\* C9 amended: for an input with chatSessionParameters, initiateChat is
\* never called and the ChatSession is constructed from an object whose
\* only property, startChatResult, is the chatSessionParameters object.
C9_ParametersAreWrapped ==
    \A a \in Attempts :
        (pc[a] # "idle" /\ Truthy(args[a].input.chatSessionParameters))
        => /\ factoryCalls[a] = 0
           /\ DOMAIN sessionDetails[a] = {"t", "startChatResult"}
           /\ sessionDetails[a].startChatResult =
                args[a].input.chatSessionParameters

\* An attempt with chatSessionParameters has opened its session.
C9_Witness ==
    \E a \in Attempts :
        /\ pc[a] = "done"
        /\ Truthy(args[a].input.chatSessionParameters)
        /\ connection[a] = "open"

\* Whether a featurePermissions value is a mapping that marks attachments
\* true.
MarksAttachments(permissions) ==
    permissions = FeaturePermissions(JSBool(TRUE))

\* C10: once the derivation has run, composerConfig.attachmentsEnabled is
\* the boolean true when input.featurePermissions or
\* chatDetails.featurePermissions marks attachments true and the boolean
\* false otherwise, and the derivation has not thrown.
C10_AttachmentsEnabledIsBoolean ==
    (pc[1] = "done" /\ args[1].input.chatSessionParameters = Undefined)
    => /\ caught[1] = NoError
       /\ composerConfig.attachmentsEnabled =
            JSBool(\/ MarksAttachments(args[1].input.featurePermissions)
                   \/ MarksAttachments(chatDetails[1].featurePermissions))

\* Whether the literal stands in the string s as a whole entry: with the
\* start of the string or a comma before it, and the end of the string or a
\* comma after it.
HasMarkdownEntry(s) ==
    \E i \in 1 .. Len(s) :
        /\ s[i] = TEXT_MARKDOWN
        /\ (i = 1 \/ s[i - 1] = ",")
        /\ (i = Len(s) \/ s[i + 1] = ",")

\* C11: once the derivation has run, composerConfig.richMessagingEnabled is
\* the boolean true when input.supportedMessagingContentTypes is a string
\* with the markdown literal as one of its comma-separated entries, and the
\* boolean false otherwise: absent, not a string, empty, or with the literal
\* only inside a longer entry.
C11_RichMessagingIffMarkdownEntry ==
    pc[1] = "done"
    => composerConfig.richMessagingEnabled =
         JSBool(/\ args[1].input.supportedMessagingContentTypes.t = "string"
                /\ HasMarkdownEntry(
                       args[1].input.supportedMessagingContentTypes.v))

\* The derivation has run on a string that holds the literal only inside a
\* longer entry, next to another entry.
C11_Witness ==
    /\ pc[1] = "done"
    /\ args[1].input.supportedMessagingContentTypes =
         JSString(<< "text/plain", ",", TEXT_MARKDOWN >>)
    /\ composerConfig.richMessagingEnabled = JSBool(TRUE)

\* C12: a step that is not a step of an attempt, nor the close of a session,
\* nor componentWillUnmount, is resetState: whatever the status was, it
\* leaves the status NotInitiated and this.state.chatSession empty, and the
\* registry, composerConfig, language, the subscriptions and every attempt
\* and session as they were; no initiateChat or session open is called.
C12_ResetClearsStatusAndSessionOnly ==
    [][ (pc' = pc /\ connection' = connection /\ mounted' = mounted)
        => /\ status' = "NotInitiated"
           /\ chatSession' = NoSession
           /\ UNCHANGED << composerConfig, language, registry, subscribers,
                           attempts, sessions >> ]_vars

\* resetState has run after one attempt succeeded and another failed: the
\* registry still holds the session and composerConfig what was derived.
C12_Witness ==
    /\ status = "NotInitiated"
    /\ chatSession = NoSession
    /\ currentChatSession # NoSession
    /\ composerConfig # EmptyObject
    /\ \E a \in Attempts : rejected[a].by # "none"
    /\ \A a \in Attempts : pc[a] = "done"

\* C13: while the initiateChat of an attempt is pending, and after it has
\* rejected, no session has been constructed or opened for the attempt; and
\* the session of an attempt that called initiateChat is constructed from
\* what initiateChat resolved with.
C13_OpenOnlyAfterInitiateChatResolves ==
    \A a \in Attempts :
        /\ (pc[a] = "initiateChat" \/ rejected[a].by = "initiateChat")
              => /\ openCalls[a] = 0
                 /\ sessionDetails[a] = Undefined
                 /\ connection[a] = "none"
        /\ (factoryCalls[a] > 0 /\ openCalls[a] > 0)
              => /\ pc[a] \in {"openChatSession", "done"}
                 /\ sessionDetails[a] = chatDetails[a]
                 /\ chatDetails[a] \in SomeCreatedChatDetails

\* One attempt's initiateChat has rejected and it has no session; the
\* other's has resolved and its session is opening.
C13_Witness ==
    \E a, b \in Attempts :
        /\ rejected[a].by = "initiateChat"
        /\ pc[a] = "done"
        /\ connection[a] = "none"
        /\ factoryCalls[b] = 1
        /\ connection[b] = "opening"

\* C14: the session the registry holds, if any, is one whose open has
\* resolved: it is open, or was open and has closed; never one that is
\* opening or whose open has failed.
C14_RegistryHoldsOpenedSession ==
    currentChatSession # NoSession
    => /\ connection[currentChatSession] \in {"open", "closed"}
       /\ rejected[currentChatSession].by = "none"

\* The registry holds the session of one attempt, as it did when another
\* was called, and the open of that other's session has failed.
C14_Witness ==
    \E a, b \in Attempts :
        /\ currentChatSession = a
        /\ connection[b] = "failed"
        /\ atCall[b].currentChatSession = a

\* Attempts a and b were in flight together: one was called before the
\* other had settled.
Overlapped(a, b) == b \in atCall[a].inFlight \/ a \in atCall[b].inFlight

\* The step in which a settles, b, with which it overlapped, having settled.
SettlesLast(a, b) ==
    /\ a # b
    /\ Overlapped(a, b)
    /\ pc[b] = "done"
    /\ InFlight(a)
    /\ pc'[a] = "done"

\* C15 as claimed, in its weakest reading: a call leaves the attempts in
\* flight as they were, and the step in which the last of two overlapped
\* attempts settles leaves the status that attempt's outcome and the
\* registry not holding the session of the attempt that settled first.
C15_LastSettledWinsStatusAndRegistry ==
    [][ \A a, b \in Attempts :
          /\ (Called(b) /\ InFlight(a))
                => /\ pc'[a] = pc[a]
                   /\ connection'[a] = connection[a]
          /\ SettlesLast(a, b)
                => /\ status' = IF caught'[a] = NoError THEN "Initiated"
                                ELSE "InitiateFailed"
                   /\ currentChatSession' # b ]_vars

\* C15 amended: a call leaves the attempts in flight as they were; the step
\* in which the last of two overlapped attempts settles leaves the status
\* that attempt's outcome, and the registry holding that attempt's session
\* when its session open resolved and what it held before when one of its
\* awaits rejected, whichever of the two was called first.
C15_LastSettledWinsStatusLastOpenedRegistry ==
    [][ \A a, b \in Attempts :
          /\ (Called(b) /\ InFlight(a))
                => /\ pc'[a] = pc[a]
                   /\ connection'[a] = connection[a]
          /\ SettlesLast(a, b)
                => /\ status' = IF caught'[a] = NoError THEN "Initiated"
                                ELSE "InitiateFailed"
                   /\ currentChatSession' =
                        IF rejected'[a].by = "none" THEN a
                        ELSE currentChatSession ]_vars

\* Attempt 2 was called with attempt 1 in flight and its session opened
\* first; attempt 1 settled after it, and the status and the registry are
\* attempt 1's.
C15_Witness ==
    /\ 1 \in atCall[2].inFlight
    /\ pc[1] = "done"
    /\ pc[2] = "done"
    /\ connection[1] = "open"
    /\ connection[2] = "open"
    /\ status = "Initiated"
    /\ currentChatSession = 1
    /\ chatSession = 1

\* C16: a step that changes the status to Initiated or to InitiateFailed
\* starts from the status Initiating.
C16_TerminalOnlyFromInitiating ==
    [][ (status' \in {"Initiated", "InitiateFailed"} /\ status' # status)
        => status = "Initiating" ]_vars

\* C17: with one call, every await of which settles, and no resetState, the
\* status Initiating leads to Initiated or InitiateFailed; and the status
\* leaves Initiating in no step but one in which the attempt settles, so
\* it stays Initiating for as long as an await is pending.
C17_SettlingLeadsOutOfInitiating ==
    /\ (status = "Initiating")
          ~> (status \in {"Initiated", "InitiateFailed"})
    /\ [][ (status = "Initiating" /\ status' # "Initiating")
            => \E a \in Attempts : InFlight(a) /\ pc'[a] = "done" ]_vars

\* The session open of the call has rejected and the status is
\* InitiateFailed.
C17_Witness ==
    /\ pc[1] = "done"
    /\ rejected[1].by = "openChatSession"
    /\ factoryCalls[1] = 1
    /\ status = "InitiateFailed"

\* C18: an attempt calls initiateChat at most once, in the step in which
\* it is called, and opens a session at most once, in that step or in the
\* step in which its initiateChat resolves; the step in which one of its
\* awaits rejects calls neither for it, and no later step does: every
\* further call of initiateChat or session open belongs to another call of
\* submitChatInitiation.
C18_OneAttemptPerCall ==
    [][ \A a \in Attempts :
          /\ factoryCalls'[a] <= 1
          /\ openCalls'[a] <= 1
          /\ factoryCalls'[a] # factoryCalls[a] => Called(a)
          /\ openCalls'[a] # openCalls[a]
                => \/ Called(a)
                   \/ pc[a] = "initiateChat" /\ pc'[a] = "openChatSession"
          /\ (Rejects(a) \/ pc[a] = "done")
                => /\ pc'[a] = "done"
                   /\ factoryCalls'[a] = factoryCalls[a]
                   /\ openCalls'[a] = openCalls[a] ]_vars

\* One attempt has failed at initiateChat after its one call of it, another
\* at the session open after one call of each.
C18_Witness ==
    \E a, b \in Attempts :
        /\ rejected[a].by = "initiateChat"
        /\ factoryCalls[a] = 1
        /\ openCalls[a] = 0
        /\ rejected[b].by = "openChatSession"
        /\ factoryCalls[b] = 1
        /\ openCalls[b] = 1

\* C19: an attempt that has settled, called with both callbacks, has called
\* exactly one of them, once: success when its session open resolved,
\* failure when one of its awaits rejected; and an attempt that called
\* success reached the end of its try block, with nothing caught.
C19_ExactlyOneCallback ==
    \A a \in Attempts :
        (pc[a] = "done" /\ Truthy(args[a].success) /\ Truthy(args[a].failure))
        => /\ Len(successCalls[a]) + Len(failureCalls[a]) = 1
           /\ Len(successCalls[a]) = 1 => caught[a] = NoError

\* C20: when the status is NotInitiated this.state.chatSession is empty;
\* when it is Initiated this.state.chatSession is a session and the one
\* the registry holds.
C20_StatusAgreesWithSession ==
    /\ status = "NotInitiated" => chatSession = NoSession
    /\ status = "Initiated" => /\ chatSession # NoSession
                               /\ chatSession = currentChatSession

\* After a first session and resetState, a second call made while
\* NotInitiated with the first session still registered has succeeded.
C20_Witness ==
    /\ atCall[2].status = "NotInitiated"
    /\ atCall[2].chatSession = NoSession
    /\ atCall[2].currentChatSession = 1
    /\ status = "Initiated"
    /\ chatSession = 2
    /\ currentChatSession = 2

=============================================================================
